---- MODULE Spec2Model ----
(***************************************************************************)
(* Model of scripts/setup_n8n_workflows.py: the N8NWorkflowSetup client    *)
(* that provisions four fixed workflows into an n8n service, together with *)
(* a stateful n8n service that records every workflow created with 201 and *)
(* returns all recorded workflows on a listing answered with 200.          *)
(***************************************************************************)
EXTENDS Integers, Sequences, FiniteSets, TLC

\* ------------------------------------------------------------------ bounds
\* Number of times the entry point is run against the same service.
MaxRuns == 2

\* ------------------------------------------------------- program constants
\* Variant of setup_all_workflows() that calls two of the flows swapped.
Templates_mutSwapped ==
    << "SHAAD_Web_Search", "SHAAD_Send_Notification",
       "SHAAD_Home_Control", "SHAAD_Schedule_Task" >>

\* The four workflow names, in the order setup_all_workflows() calls them.
Templates ==
    << "SHAAD_Send_Notification", "SHAAD_Web_Search",
       "SHAAD_Home_Control", "SHAAD_Schedule_Task" >>

NumTemplates == Len(Templates)

TemplateNames == { Templates[i] : i \in 1..NumTemplates }

ApiKeyHeader == "X-N8N-API-KEY"

ContentTypeHeader == <<"Content-Type", "application/json">>

WorkflowsPath == "/api/v1/workflows"

\* --------------------------------------------------------- the environment
\* An environment variable is unset, set to the empty string, or set.
Unset == [set |-> FALSE, val |-> ""]

SetTo(v) == [set |-> TRUE, val |-> v]

\* os.getenv(name, default): the value when set, the default otherwise.
getenv(var, default) == IF var.set THEN var.val ELSE default

\* Python truthiness of os.getenv(name): None and "" are both falsy.
getenv_truthy(var) == var.set /\ var.val # ""

Envs ==
    [ N8N_API_KEY : {Unset, SetTo(""), SetTo("key1")},
      N8N_BASIC_AUTH_USER : {Unset, SetTo("admin")},
      N8N_BASIC_AUTH_PASSWORD : {SetTo(""), SetTo("secret")} ]

\* ----------------------------------------------------- ids and responses
\* A value of the "id" field of a creation response, or Python's None.
NoneId == [t |-> "none", n |-> 0, s |-> ""]

IntId(k) == [t |-> "int", n |-> k, s |-> ""]

StrId(x) == [t |-> "str", n |-> 0, s |-> x]

\* Ids the service may assign, among them the falsy values 0 and "".
ServiceIds == { IntId(0), StrId(""), StrId("wf1") }

\* Python truthiness of an id value.
Truthy(id) ==
    CASE id.t = "none" -> FALSE
      [] id.t = "int" -> id.n # 0
      [] id.t = "str" -> id.s # ""

\* Status codes the service answers a listing request with.
ListStatuses == {200, 401, 500}

\* Status codes the service answers a creation request with.
CreateStatuses == {201, 200, 500}

\* Raw response bodies of refused creation requests.
ErrorBodies == {"request refused"}

\* The status recorded for a call that got no HTTP response.
NoResponse == 0

CreateResponses ==
    { [status |-> 201, id |-> i, body |-> "created"] : i \in ServiceIds }
    \cup
    { [status |-> s, id |-> NoneId, body |-> b] :
        s \in CreateStatuses \ {201}, b \in ErrorBodies }

\* --------------------------------------------------------- remote service
\* Names of workflow records the service may hold: the four templates and
\* a record that differs from a template name by letter case only.
Names == TemplateNames \cup {"shaad_web_search"}

\* The order in which the service lists its records.
NameOrder ==
    << "shaad_web_search", "SHAAD_Schedule_Task", "SHAAD_Home_Control",
       "SHAAD_Web_Search", "SHAAD_Send_Notification" >>

NoRecords == [n \in Names |-> 0]

\* Records the service holds before the first run.
InitialRemotes ==
    { NoRecords,
      [NoRecords EXCEPT !["shaad_web_search"] = 1],
      [NoRecords EXCEPT !["SHAAD_Web_Search"] = 1, !["SHAAD_Home_Control"] = 1] }

RECURSIVE Repeat(_, _)
Repeat(x, k) == IF k = 0 THEN <<>> ELSE <<x>> \o Repeat(x, k - 1)

RECURSIVE ListFrom(_, _)
ListFrom(rem, i) ==
    IF i > Len(NameOrder) THEN <<>>
    ELSE Repeat(NameOrder[i], rem[NameOrder[i]]) \o ListFrom(rem, i + 1)

\* The "data" array of a listing response: the name of every record held.
ListingData(rem) == ListFrom(rem, 1)

\* ------------------------------------------------------------ the client
\* __init__: the request headers.
ResolveHeaders(e) ==
    IF getenv_truthy(e.N8N_API_KEY)
    THEN { <<ApiKeyHeader, e.N8N_API_KEY.val>>, ContentTypeHeader }
    ELSE { ContentTypeHeader }

\* Variant of __init__ that attaches basic auth whatever the API key.
ResolveAuth_mutAlways(e) ==
    LET username == getenv(e.N8N_BASIC_AUTH_USER, "")
        password == getenv(e.N8N_BASIC_AUTH_PASSWORD, "")
    IN IF username # "" /\ password # "" THEN <<username, password>> ELSE <<>>

\* __init__: the basic-auth pair, <<>> standing for None.
ResolveAuth(e) ==
    IF getenv_truthy(e.N8N_API_KEY) THEN <<>>
    ELSE LET username == getenv(e.N8N_BASIC_AUTH_USER, "")
             password == getenv(e.N8N_BASIC_AUTH_PASSWORD, "")
         IN IF username # "" /\ password # ""
            THEN <<username, password>> ELSE <<>>

\* Letter-case folding of a record name, as far as the names held go.
CaseFold(n) == IF n = "shaad_web_search" THEN "SHAAD_Web_Search" ELSE n

\* Variant of AnyNamed that compares names ignoring letter case.
AnyNamed_mutCaseFold(workflows, name) ==
    \E i \in 1..Len(workflows) : CaseFold(workflows[i]) = CaseFold(name)

\* Variant of AnyNamed that looks at the first record only.
AnyNamed_mutFirstOnly(workflows, name) ==
    workflows # <<>> /\ Head(workflows) = name

\* any(w['name'] == name for w in workflows)
RECURSIVE AnyNamed(_, _)
AnyNamed(workflows, name) ==
    IF workflows = <<>> THEN FALSE
    ELSE IF Head(workflows) = name THEN TRUE
    ELSE AnyNamed(Tail(workflows), name)

\* workflow_exists(name), given the listing response.
workflow_exists(status, data, name) ==
    IF status = 200 THEN AnyNamed(data, name) ELSE FALSE

\* Variant of create_workflow that returns "id or None".
create_workflow_mutIdOrNone(status, id) ==
    IF status = 201 /\ Truthy(id) THEN id ELSE NoneId

\* create_workflow(workflow_data): the returned value, given the response.
create_workflow(status, id) ==
    IF status = 201 THEN id ELSE NoneId

\* Lines written to standard output.
Line(kind, name, id, body) == [kind |-> kind, name |-> name, id |-> id, body |-> body]

BannerLines == << Line("banner", "", NoneId, ""), Line("rule", "", NoneId, "") >>

ExistsLine(name) == Line("exists", name, NoneId, "")

CreatedLine(name, id) == Line("created", name, id, "")

FailedLine(body) == Line("failed", "", NoneId, body)

CompleteLines ==
    << Line("rule", "", NoneId, ""), Line("complete", "", NoneId, ""),
       Line("available", "", NoneId, "") >>
    \o [i \in 1..NumTemplates |-> Line("available", Templates[i], NoneId, "")]

\* create_workflow: what it prints, given the response.
CreatePrints(status, body) ==
    IF status = 201 THEN <<>> ELSE << FailedLine(body) >>

\* create_*_workflow: what the caller prints after create_workflow returned.
CallerPrints(name, workflow_id) ==
    IF Truthy(workflow_id) THEN << CreatedLine(name, workflow_id) >> ELSE <<>>

\* ------------------------------------------------------------------ state
VARIABLES
    env,        \* the process environment
    headers,    \* self.headers
    auth,       \* self.auth
    remote,     \* the service: number of records held, by name
    run,        \* number of runs of the entry point started so far
    pc,         \* position of the current run
    idx,        \* index of the template whose flow is next or in progress
    call,       \* the last remote call: request, response, returned value
    reqs,       \* the requests issued by the current run, in order
    lines,      \* the standard output of the current run
    exit,       \* <<>> while the process has not exited, else <<status>>
    created,    \* number of 201 answers to creation requests, by name
    listNon200  \* some listing request was answered with a status # 200

vars == << env, headers, auth, remote, run, pc, idx, call, reqs, lines,
           exit, created, listNon200 >>

NoCall ==
    [ fn |-> "none", name |-> "", method |-> "", path |-> "",
      headers |-> {}, auth |-> <<>>,
      status |-> NoResponse, data |-> <<>>, id |-> NoneId, body |-> "",
      found |-> FALSE, ret |-> NoneId, raised |-> FALSE ]

Req(method, name, ret) == [method |-> method, name |-> name, ret |-> ret]

\* The state once the client is constructed in environment e, the service
\* holding the records r.
Constructed(e, r) ==
    /\ env = e
    /\ headers = ResolveHeaders(env)
    /\ auth = ResolveAuth(env)
    /\ remote = r
    /\ run = 0
    /\ pc = "idle"
    /\ idx = 1
    /\ call = NoCall
    /\ reqs = <<>>
    /\ lines = <<>>
    /\ exit = <<>>
    /\ created = [n \in TemplateNames |-> 0]
    /\ listNon200 = FALSE

\* The environment with none of the variables set.
DefaultEnv ==
    [ N8N_API_KEY |-> Unset, N8N_BASIC_AUTH_USER |-> Unset,
      N8N_BASIC_AUTH_PASSWORD |-> Unset ]

\* Default environment, any of the initial services.
Init == \E r \in InitialRemotes : Constructed(DefaultEnv, r)

\* Any environment, a service that holds no record yet.
InitAuth == \E e \in Envs : Constructed(e, NoRecords)

\* The entry point: construct the client, enter setup_all_workflows().
StartRun ==
    /\ pc \in {"idle", "done", "crashed"}
    /\ run < MaxRuns
    /\ run' = run + 1
    /\ headers' = ResolveHeaders(env)
    /\ auth' = ResolveAuth(env)
    /\ pc' = "list"
    /\ idx' = 1
    /\ call' = NoCall
    /\ reqs' = <<>>
    /\ lines' = BannerLines
    /\ exit' = <<>>
    /\ UNCHANGED << env, remote, created, listNon200 >>

\* workflow_exists() of the current template gets an HTTP response; the
\* caller prints "already exists" and returns, or goes on to create.
ListRespond ==
    /\ pc = "list"
    /\ idx <= NumTemplates
    /\ \E status \in ListStatuses :
         LET name == Templates[idx]
             data == ListingData(remote)
             found == workflow_exists(status, data, name)
         IN /\ call' = [ NoCall EXCEPT
                           !.fn = "workflow_exists", !.name = name,
                           !.method = "GET", !.path = WorkflowsPath,
                           !.headers = headers, !.auth = auth,
                           !.status = status, !.data = data,
                           !.found = found ]
            /\ reqs' = Append(reqs, Req("GET", name, IF found THEN "true" ELSE "false"))
            /\ listNon200' = (listNon200 \/ status # 200)
            /\ IF found
               THEN /\ lines' = Append(lines, ExistsLine(name))
                    /\ idx' = idx + 1
                    /\ pc' = "list"
               ELSE /\ pc' = "create"
                    /\ UNCHANGED << lines, idx >>
    /\ UNCHANGED << env, headers, auth, remote, run, exit, created >>

\* Variant of workflow_exists() that catches the fault and returns False.
ListFault_mutCaught ==
    /\ pc = "list"
    /\ idx <= NumTemplates
    /\ call' = [ NoCall EXCEPT
                   !.fn = "workflow_exists", !.name = Templates[idx],
                   !.method = "GET", !.path = WorkflowsPath,
                   !.headers = headers, !.auth = auth, !.raised = TRUE ]
    /\ reqs' = Append(reqs, Req("GET", Templates[idx], "raise"))
    /\ pc' = "create"
    /\ UNCHANGED << env, headers, auth, remote, run, idx, lines, exit, created, listNon200 >>

\* requests.get() raises: nothing catches it, the process dies.
ListFault ==
    /\ pc = "list"
    /\ idx <= NumTemplates
    /\ call' = [ NoCall EXCEPT
                   !.fn = "workflow_exists", !.name = Templates[idx],
                   !.method = "GET", !.path = WorkflowsPath,
                   !.headers = headers, !.auth = auth, !.raised = TRUE ]
    /\ reqs' = Append(reqs, Req("GET", Templates[idx], "raise"))
    /\ pc' = "crashed"
    /\ exit' = <<1>>
    /\ UNCHANGED << env, headers, auth, remote, run, idx, lines, created, listNon200 >>

\* Variant of create_workflow() that raises on a status other than 201
\* (response.raise_for_status()), which nothing catches.
CreateRespond_mutRaiseForStatus ==
    /\ pc = "create"
    /\ \E resp \in CreateResponses :
         LET name == Templates[idx]
             workflow_id == create_workflow(resp.status, resp.id)
         IN /\ call' = [ NoCall EXCEPT
                           !.fn = "create_workflow", !.name = name,
                           !.method = "POST", !.path = WorkflowsPath,
                           !.headers = headers, !.auth = auth,
                           !.status = resp.status, !.id = resp.id,
                           !.body = resp.body, !.ret = workflow_id ]
            /\ reqs' = Append(reqs, Req("POST", name,
                                IF resp.status = 201 THEN "201" ELSE "other"))
            /\ remote' = IF resp.status = 201
                         THEN [remote EXCEPT ![name] = @ + 1] ELSE remote
            /\ created' = IF resp.status = 201
                          THEN [created EXCEPT ![name] = @ + 1] ELSE created
            /\ lines' = lines \o CallerPrints(name, workflow_id)
            /\ IF resp.status = 201
               THEN /\ idx' = idx + 1
                    /\ pc' = "list"
                    /\ exit' = exit
               ELSE /\ idx' = idx
                    /\ pc' = "crashed"
                    /\ exit' = <<1>>
    /\ UNCHANGED << env, headers, auth, run, listNon200 >>

\* create_workflow() of the current template gets an HTTP response; the
\* service records the workflow when it answers 201.
CreateRespond ==
    /\ pc = "create"
    /\ \E resp \in CreateResponses :
         LET name == Templates[idx]
             workflow_id == create_workflow(resp.status, resp.id)
         IN /\ call' = [ NoCall EXCEPT
                           !.fn = "create_workflow", !.name = name,
                           !.method = "POST", !.path = WorkflowsPath,
                           !.headers = headers, !.auth = auth,
                           !.status = resp.status, !.id = resp.id,
                           !.body = resp.body, !.ret = workflow_id ]
            /\ reqs' = Append(reqs, Req("POST", name,
                                IF resp.status = 201 THEN "201" ELSE "other"))
            /\ remote' = IF resp.status = 201
                         THEN [remote EXCEPT ![name] = @ + 1] ELSE remote
            /\ created' = IF resp.status = 201
                          THEN [created EXCEPT ![name] = @ + 1] ELSE created
            /\ lines' = lines \o CreatePrints(resp.status, resp.body)
                              \o CallerPrints(name, workflow_id)
    /\ idx' = idx + 1
    /\ pc' = "list"
    /\ UNCHANGED << env, headers, auth, run, exit, listNon200 >>

\* requests.post() raises: nothing catches it, the process dies.
CreateFault ==
    /\ pc = "create"
    /\ call' = [ NoCall EXCEPT
                   !.fn = "create_workflow", !.name = Templates[idx],
                   !.method = "POST", !.path = WorkflowsPath,
                   !.headers = headers, !.auth = auth, !.raised = TRUE ]
    /\ reqs' = Append(reqs, Req("POST", Templates[idx], "raise"))
    /\ pc' = "crashed"
    /\ exit' = <<1>>
    /\ UNCHANGED << env, headers, auth, remote, run, idx, lines, created, listNon200 >>

\* The tail of setup_all_workflows() and the end of the process.
Finish ==
    /\ pc = "list"
    /\ idx = NumTemplates + 1
    /\ lines' = lines \o CompleteLines
    /\ pc' = "done"
    /\ exit' = <<0>>
    /\ UNCHANGED << env, headers, auth, remote, run, idx, call, reqs, created, listNon200 >>

Next ==
    \/ StartRun
    \/ ListRespond
    \/ ListFault
    \/ CreateRespond
    \/ CreateFault
    \/ Finish

Spec == Init /\ [][Next]_vars

\* The same program, started in every environment.
SpecAuth == InitAuth /\ [][Next]_vars

\* ------------------------------------------------------ derived notions
ReqIdx == 1..Len(reqs)

\* The requests of the current run with the given method and name.
Sent(method, name) ==
    { i \in ReqIdx : reqs[i].method = method /\ reqs[i].name = name }

\* Some request of the current run got no HTTP response.
SomeFault == \E i \in ReqIdx : reqs[i].ret = "raise"

\* The current run printed its final "Workflow setup complete!" line.
CompletePrinted == \E i \in 1..Len(lines) : lines[i].kind = "complete"

\* The run of the entry point has ended.
Ended == exit # <<>>

\* The name was created (201) in the current run.
CreatedNow(name) ==
    \E i \in ReqIdx :
        reqs[i].method = "POST" /\ reqs[i].name = name /\ reqs[i].ret = "201"

\* Number of times the name was created (201) in runs before the current one.
CreatedEarlier(name) == created[name] - (IF CreatedNow(name) THEN 1 ELSE 0)

IsStatusLine(l) == l.kind \in {"exists", "created", "failed"}

\* The status lines of the current run, in order.
StatusLines == SelectSeq(lines, IsStatusLine)

\* The order of the templates, as the specification states it.
StatedOrder ==
    << "SHAAD_Send_Notification", "SHAAD_Web_Search",
       "SHAAD_Home_Control", "SHAAD_Schedule_Task" >>

Position(name) == CHOOSE k \in 1..4 : StatedOrder[k] = name

\* ----------------------------------------------------------------- claims

\* C1: the provisioner never gets a creation answered 201 for a
\* workflow name the remote service already holds, whatever the listing and
\* creation responses were.
C1_NeverCreatesHeldName ==
    [][ \A n \in TemplateNames : remote'[n] > remote[n] => remote[n] = 0 ]_vars

\* Where C1 fails: a creation answered 201 for a name the remote service
\* already holds happens only right after that template's listing request
\* was answered with a status other than 200; after a listing answered 200
\* no name the service holds is created again.
C1_CreatesHeldNameOnlyAfterFailedListing ==
    [][ \A n \in TemplateNames :
          (remote'[n] > remote[n] /\ remote[n] > 0)
          => /\ call.fn = "workflow_exists"
             /\ call.name = n
             /\ call.status # 200 ]_vars

\* A name the service already held was created once more.
C1_Witness ==
    \E n \in TemplateNames : created[n] >= 1 /\ remote[n] >= 2

\* C2: when every listing request is answered 200, each template name is
\* created at most once over all runs, and a run issues no creation request
\* for a name an earlier run created.
C2_SetupTwiceCreatesOnce ==
    ~listNon200 =>
        \A n \in TemplateNames :
            /\ created[n] <= 1
            /\ CreatedEarlier(n) > 0 => Sent("POST", n) = {}

\* The second run has ended, every listing was answered 200, the first run
\* created the notification workflow and the second run sent no creation
\* request for it.
C2_Witness ==
    /\ run = 2
    /\ pc = "done"
    /\ ~listNon200
    /\ created["SHAAD_Send_Notification"] = 1
    /\ CreatedEarlier("SHAAD_Send_Notification") = 1
    /\ Sent("GET", "SHAAD_Send_Notification") # {}
    /\ Sent("POST", "SHAAD_Send_Notification") = {}

\* C3: workflow_exists(name) returns true exactly when the listing request
\* was answered 200 and some returned record has exactly the given name
\* (letter case included); it returns false on every other status.
C3_WorkflowExists ==
    (call.fn = "workflow_exists" /\ ~call.raised) =>
        call.found = ( /\ call.status = 200
                       /\ \E i \in 1..Len(call.data) : call.data[i] = call.name )

\* A listing answered 200 that holds a record whose name differs from the
\* asked name by letter case only: workflow_exists returned false.
C3_Witness ==
    /\ call.fn = "workflow_exists"
    /\ call.status = 200
    /\ call.name = "SHAAD_Web_Search"
    /\ \E i \in 1..Len(call.data) : call.data[i] = "shaad_web_search"
    /\ ~call.found

\* C4: a call of create_workflow sends exactly one creation request; when
\* the answer is 201 it returns the id of the response; on any other status
\* it prints the response body, returns None and the run goes on.
C4_CreateWorkflow ==
    [][ pc = "create" =>
          /\ Len(reqs') = Len(reqs) + 1
          /\ reqs'[Len(reqs')].method = "POST"
          /\ reqs'[Len(reqs')].name = call.name
          /\ call'.fn = "create_workflow"
          /\ ~call'.raised =>
               IF call'.status = 201
               THEN call'.ret = call'.id
               ELSE /\ call'.ret = NoneId
                    /\ lines' = Append(lines, FailedLine(call'.body))
                    /\ pc' = "list"
                    /\ exit' = <<>> ]_vars

\* create_workflow returned the assigned id after an earlier creation
\* request of the same run had been refused.
C4_Witness ==
    /\ call.fn = "create_workflow"
    /\ call.status = 201
    /\ call.ret = StrId("wf1")
    /\ \E i \in ReqIdx : reqs[i].method = "POST" /\ reqs[i].ret = "other"

C6_FailureNeverBlocks ==
    Ended =>
        /\ pc = "done"
        /\ CompletePrinted
        /\ \A n \in TemplateNames : Sent("GET", n) # {}

\* C6 (amended): a remote call answered with any HTTP status blocks nothing:
\* a run stops early only at a call that got no HTTP response, and a run
\* that has ended without such a call has performed the existence check of
\* all four templates and has reached its end.
C6_HttpFailureNeverBlocks ==
    /\ pc = "crashed" => (reqs # <<>> /\ reqs[Len(reqs)].ret = "raise")
    /\ (pc \in {"list", "create"}) => ~Ended
    /\ (Ended /\ ~SomeFault) =>
         /\ pc = "done"
         /\ CompletePrinted
         /\ \A n \in TemplateNames : Cardinality(Sent("GET", n)) = 1

\* A run reached its end although the creation of the first template was
\* refused and a listing was answered with a status other than 200.
C6_Witness ==
    /\ pc = "done"
    /\ listNon200
    /\ \E i \in ReqIdx : reqs[i] = Req("POST", "SHAAD_Send_Notification", "other")
    /\ \A n \in TemplateNames : Sent("GET", n) # {}

\* C7 (as stated): every request carries the API-key header and no basic
\* auth when N8N_API_KEY is set; else basic auth and no API-key header when
\* both basic-auth variables are set and non-empty; else neither.
C7_CredentialsBySetVariables ==
    call.fn # "none" =>
        LET user == env.N8N_BASIC_AUTH_USER
            pass == env.N8N_BASIC_AUTH_PASSWORD
            hasKey == \E h \in call.headers : h[1] = "X-N8N-API-KEY"
        IN IF env.N8N_API_KEY.set
           THEN hasKey /\ call.auth = <<>>
           ELSE IF user.set /\ user.val # "" /\ pass.set /\ pass.val # ""
                THEN ~hasKey /\ call.auth = <<user.val, pass.val>>
                ELSE ~hasKey /\ call.auth = <<>>

\* C7 (amended): the credentials never change after construction, and every
\* request carries the API-key header with the key and no basic auth when
\* N8N_API_KEY is set to a non-empty value; else basic auth and no API-key
\* header when both basic-auth variables are set and non-empty; else
\* neither.  An N8N_API_KEY set to the empty string counts as not set.
C7_CredentialsByNonEmptyVariables ==
    /\ [][ headers' = headers /\ auth' = auth ]_vars
    /\ [](call.fn # "none" =>
           LET key == env.N8N_API_KEY
               user == env.N8N_BASIC_AUTH_USER
               pass == env.N8N_BASIC_AUTH_PASSWORD
               hasKey == \E h \in call.headers : h[1] = "X-N8N-API-KEY"
           IN IF key.set /\ key.val # ""
              THEN /\ <<"X-N8N-API-KEY", key.val>> \in call.headers
                   /\ call.auth = <<>>
              ELSE IF user.set /\ user.val # "" /\ pass.set /\ pass.val # ""
                   THEN ~hasKey /\ call.auth = <<user.val, pass.val>>
                   ELSE ~hasKey /\ call.auth = <<>>)

\* A creation request was sent with the API key while both basic-auth
\* variables were set as well.
C7_Witness ==
    /\ call.fn = "create_workflow"
    /\ env.N8N_API_KEY = SetTo("key1")
    /\ env.N8N_BASIC_AUTH_USER = SetTo("admin")
    /\ env.N8N_BASIC_AUTH_PASSWORD = SetTo("secret")
    /\ <<"X-N8N-API-KEY", "key1">> \in call.headers
    /\ call.auth = <<>>

\* C8 (as stated): the process always exits with status 0.
C8_AlwaysExitsZero ==
    Ended => exit = <<0>>

\* C8 (amended): the process exits with status 0 exactly when every remote
\* call of the run got an HTTP response, whatever the statuses; a call that
\* got no HTTP response ends the process with status 1.
C8_ExitsZeroUnlessFault ==
    Ended => exit = (IF SomeFault THEN <<1>> ELSE <<0>>)

\* The process exited with status 0 although the creation of the last
\* template was refused.
C8_Witness ==
    /\ exit = <<0>>
    /\ \E i \in ReqIdx : reqs[i] = Req("POST", "SHAAD_Schedule_Task", "other")

\* C9: a remote call that gets no HTTP response is the last request of its
\* run: the run is over at that point, no later request is sent and the
\* final "Workflow setup complete!" line is not printed.
C9_FaultTerminatesRun ==
    /\ call.raised => pc = "crashed"
    /\ \A i \in ReqIdx :
         reqs[i].ret = "raise" =>
            /\ i = Len(reqs)
            /\ pc = "crashed"
            /\ Ended
            /\ ~CompletePrinted

\* A creation request got no HTTP response after the first template's flow
\* had finished.
C9_Witness ==
    /\ pc = "crashed"
    /\ Len(reqs) >= 3
    /\ reqs[Len(reqs)].method = "POST"
    /\ reqs[Len(reqs)].ret = "raise"
    /\ idx = 2

\* C10: as long as every remote call got an HTTP response, every template
\* whose flow has finished has produced exactly one status line, in order:
\* "already exists" when the existence check returned true, "Created" when
\* the creation was answered 201 (whatever the id), "Failed to create
\* workflow" when it was answered with another status.
C10_OneStatusLinePerTemplate ==
    pc # "crashed" =>
        /\ Len(StatusLines) = idx - 1
        /\ \A k \in 1..Len(StatusLines) :
             StatusLines[k].kind =
                (IF \E i \in ReqIdx : reqs[i] = Req("GET", StatedOrder[k], "true")
                 THEN "exists"
                 ELSE IF \E i \in ReqIdx : reqs[i] = Req("POST", StatedOrder[k], "201")
                 THEN "created"
                 ELSE "failed")

====
